---- MODULE Spec2Model ----
(***************************************************************************)
(* Request admission and response caching layer of AI_Law_Agent:           *)
(*   cache/redis_cache.py          KV store adapter (RedisCache)           *)
(*   security/rate_limiter.py      RateLimiter                             *)
(*   security/ip_blocker.py        IPBlocker                               *)
(*   security/security_middleware.py  SecurityMiddleware.dispatch          *)
(*   cache/cache_strategies.py     SemanticCacheStrategy                   *)
(*                                                                         *)
(* Time is counted in whole seconds.  All state of the five entity kinds   *)
(* lives in the store `kv`; the process keeps only its configuration.      *)
(***************************************************************************)
EXTENDS Integers, Sequences, FiniteSets, TLC

VARIABLES
    client,   \* RedisCache.client: "conn" (a redis.Redis object) or "none" (None);
              \* "unbuilt" while _redis_cache is None
    up,       \* environment: TRUE while the store answers, FALSE while every command raises
    kv,       \* the store: key |-> [val, ttl]; ttl is the remaining seconds or NoTtl
    now,      \* time.time(), in seconds
    ticks,    \* number of time steps taken so far
    cfg,      \* configuration fixed at construction (limits, enable flags)
    last,     \* the last operation: its name, arguments and result
    run,      \* per (identifier, endpoint): results of the is_allowed calls of the current window
    rejections, \* per client IP: the 429 answers given so far, counted up to AutoBlockViolations
    inflight  \* concurrent callers: where each one stands in its call, what it has read,
              \* and how many calls each window counter has admitted

vars == <<client, up, kv, now, ticks, cfg, last, run, rejections, inflight>>

----------------------------------------------------------------------------
(* Bounds of the model *)

MaxTicks == 3       \* time steps per behaviour
MaxRate == 2        \* configured limits are drawn from 1..MaxRate
MaxStats == 2       \* lookups start while cache_stats:hits + misses is at most this
MaxEntries == 2     \* cache_response adds an entry while the cache holds fewer than this

(* Program constants *)

MinuteWindow == 60      \* is_allowed: window of the minute counter
HourWindow == 3600      \* is_allowed: window of the hour counter
BurstSpan == 10         \* _check_burst: length of the sliding window
BurstKeyTtl == 60       \* _check_burst: expiry of the sorted set
FailOpenReset == 60     \* reset_at offset of the fail-open answers
NoClientRemaining == 999 \* remaining reported when client is None
NoTtl == -1             \* TTL reply of a key that has no expiry
NoKeyTtl == -2          \* TTL reply of a key that does not exist

(* The steps by which time advances.  Their sums give 10, 59, 60 and 3599 *)
TickSteps == {1, 9, 50, 3540, 3600}

Ids == {"ip1", "ip2", "unknown"}
Min(a, b) == IF a <= b THEN a ELSE b

----------------------------------------------------------------------------
(* The store commands (redis-py client), as functions of the store content *)

Has(s, k) == k \in DOMAIN s
Setex(s, k, ttl, v) == (k :> [val |-> v, ttl |-> ttl]) @@ s
SetKey(s, k, v) == (k :> [val |-> v, ttl |-> NoTtl]) @@ s
Del(s, ks) == [k \in DOMAIN s \ ks |-> s[k]]
\* INCR creates a missing key with value 1 and no expiry; it keeps an existing expiry
Incr(s, k) == IF Has(s, k) THEN [s EXCEPT ![k].val = @ + 1] ELSE SetKey(s, k, 1)
Ttl(s, k) == IF Has(s, k) THEN s[k].ttl ELSE NoKeyTtl
Expire(s, k, ttl) == IF Has(s, k) THEN [s EXCEPT ![k].ttl = ttl] ELSE s
\* the key's expiry falls before the next command of the running call
Lapse(s, k, lapse) == IF lapse /\ Has(s, k) THEN Del(s, {k}) ELSE s
\* a key in its last second may expire between two commands of one call
CanLapse(s, k) == Has(s, k) /\ s[k].ttl = 1

\* a piece of a pattern against a piece of a key: "[1]" in a pattern is a
\* class that matches the one character "1", so a piece that holds it
\* matches the text with "1" in its place and not itself
BracketEndpoint == "GET:/q[1]"
PieceMatch(piece, pattern) ==
    IF pattern = BracketEndpoint THEN piece = "GET:/q1" ELSE piece = pattern
\* glob matching of KEYS, on keys and patterns cut at their colons; "*"
\* matches any run of characters, colons included
RECURSIVE GlobMatch(_, _)
GlobMatch(key, pattern) ==
    IF pattern = <<>> THEN key = <<>>
    ELSE IF Head(pattern) = "*"
    THEN GlobMatch(key, Tail(pattern)) \/ (key # <<>> /\ GlobMatch(Tail(key), pattern))
    ELSE key # <<>> /\ PieceMatch(Head(key), Head(pattern)) /\ GlobMatch(Tail(key), Tail(pattern))
\* a path may hold a colon: the endpoint of GET /query:v2 is "GET:/query:v2",
\* which in a key or a pattern reads as "GET:/query" followed by "v2"
ColonEndpoint == "GET:/query:v2"
Cut(piece) == IF piece = ColonEndpoint THEN <<"GET:/query", "v2">> ELSE <<piece>>
RECURSIVE Pieces(_)
Pieces(t) == IF t = <<>> THEN <<>> ELSE Cut(Head(t)) \o Pieces(Tail(t))
Keys(s, pattern) == {k \in DOMAIN s : GlobMatch(Pieces(k), Pieces(pattern))}

\* what remains of the store d seconds later
Aged(s, d) ==
    LET live == {k \in DOMAIN s : s[k].ttl = NoTtl \/ s[k].ttl > d}
    IN [k \in live |-> IF s[k].ttl = NoTtl THEN s[k] ELSE [s[k] EXCEPT !.ttl = @ - d]]

----------------------------------------------------------------------------
(* RateLimiter *)

RateKey(identifier, endpoint, kind) == <<"rate_limit", identifier, endpoint, kind>>

LimitReachedStrict(current, limit) == current > limit
LimitReached(current, limit) == current >= limit

\* _check_limit when a command raises: the except branch
CheckLimitErrorClosed(s, window) ==
    [store |-> s, allowed |-> FALSE,
     info |-> [remaining |-> 0, reset_at |-> now + window]]
CheckLimitError(s, window) ==
    [store |-> s, allowed |-> TRUE,
     info |-> [remaining |-> 1, reset_at |-> now + window]]

\* _check_limit from the value client.get returned (<<>> for None): the
\* commands that follow the read
CheckLimitAfterGet(s, key, limit, window, current) ==
    IF current = <<>>
    THEN [store |-> Setex(s, key, window, 1), allowed |-> TRUE,
          info |-> [remaining |-> limit - 1, reset_at |-> now + window]]
    ELSE IF LimitReached(current[1], limit)
    THEN [store |-> s, allowed |-> FALSE,
          info |-> [remaining |-> 0, reset_at |-> now + Ttl(s, key),
                    reason |-> "rate_limit_exceeded"]]
    ELSE [store |-> Incr(s, key), allowed |-> TRUE,
          info |-> [remaining |-> limit - current[1] - 1,
                    reset_at |-> now + Ttl(Incr(s, key), key)]]

\* _check_limit with the store answering
CheckLimit(s, key, limit, window, lapse) ==
    IF ~Has(s, key)
    THEN [store |-> Setex(s, key, window, 1), allowed |-> TRUE,
          info |-> [remaining |-> limit - 1, reset_at |-> now + window]]
    ELSE LET current == s[key].val
             s1 == Lapse(s, key, lapse)
         IN IF LimitReached(current, limit)
            THEN [store |-> s1, allowed |-> FALSE,
                  info |-> [remaining |-> 0, reset_at |-> now + Ttl(s1, key),
                            reason |-> "rate_limit_exceeded"]]
            ELSE LET s2 == Incr(s1, key)
                 IN [store |-> s2, allowed |-> TRUE,
                     info |-> [remaining |-> limit - current - 1,
                               reset_at |-> now + Ttl(s2, key)]]

\* the sorted set of a burst key: the scores of its members, oldest first.
\* Each call adds a member of its own: two readings of time.time() by
\* successive calls differ, by less than the second this model counts in.
Zadd(s, k, score) ==
    IF Has(s, k) THEN [s EXCEPT ![k].val = Append(@, score)]
    ELSE SetKey(s, k, <<score>>)
Zremrangebyscore(s, k, lo, hi) ==
    IF ~Has(s, k) THEN s
    ELSE LET kept == SelectSeq(s[k].val, LAMBDA t : ~(lo <= t /\ t <= hi))
         IN IF kept = <<>> THEN Del(s, {k}) ELSE [s EXCEPT ![k].val = kept]
Zcard(s, k) == IF Has(s, k) THEN Len(s[k].val) ELSE 0

BurstOkLoose(count, burst) == count <= burst + 1
BurstOk(count, burst) == count <= burst

\* _check_burst with the store answering
CheckBurstUnrecorded(s, identifier, endpoint) ==
    LET burst_key == RateKey(identifier, endpoint, "burst")
        s1 == Zadd(s, burst_key, now)
        s2 == Zremrangebyscore(s1, burst_key, 0, now - BurstSpan)
        count == Zcard(s2, burst_key)
        s3 == Expire(s2, burst_key, BurstKeyTtl)
    IN [store |-> IF BurstOk(count, cfg.burst) THEN s3 ELSE s,
        ok |-> BurstOk(count, cfg.burst)]
CheckBurst(s, identifier, endpoint) ==
    LET burst_key == RateKey(identifier, endpoint, "burst")
        s1 == Zadd(s, burst_key, now)
        s2 == Zremrangebyscore(s1, burst_key, 0, now - BurstSpan)
        count == Zcard(s2, burst_key)
        s3 == Expire(s2, burst_key, BurstKeyTtl)
    IN [store |-> s3, ok |-> BurstOk(count, cfg.burst)]

\* is_allowed with client set and the store answering
IsAllowedUpHourFirst(s, identifier, endpoint, lapseM, lapseH) ==
    LET h == CheckLimit(s, RateKey(identifier, endpoint, "hour"),
                        cfg.rate_per_hour, HourWindow, lapseH)
    IN IF ~h.allowed THEN h
       ELSE LET m == CheckLimit(h.store, RateKey(identifier, endpoint, "minute"),
                                cfg.rate_per_minute, MinuteWindow, lapseM)
            IN IF ~m.allowed THEN m
               ELSE LET b == CheckBurst(m.store, identifier, endpoint)
                    IN IF ~b.ok
                       THEN [store |-> b.store, allowed |-> FALSE,
                             info |-> [remaining |-> 0, reset_at |-> now + FailOpenReset,
                                       reason |-> "burst_limit_exceeded"]]
                       ELSE [store |-> b.store, allowed |-> TRUE,
                             info |-> [remaining |-> Min(m.info.remaining, h.info.remaining),
                                       reset_at |-> m.info.reset_at]]
IsAllowedUp(s, identifier, endpoint, lapseM, lapseH) ==
    LET m == CheckLimit(s, RateKey(identifier, endpoint, "minute"),
                        cfg.rate_per_minute, MinuteWindow, lapseM)
    IN IF ~m.allowed THEN m
       ELSE LET h == CheckLimit(m.store, RateKey(identifier, endpoint, "hour"),
                                cfg.rate_per_hour, HourWindow, lapseH)
            IN IF ~h.allowed THEN h
               ELSE LET b == CheckBurst(h.store, identifier, endpoint)
                    IN IF ~b.ok
                       THEN [store |-> b.store, allowed |-> FALSE,
                             info |-> [remaining |-> 0, reset_at |-> now + FailOpenReset,
                                       reason |-> "burst_limit_exceeded"]]
                       ELSE [store |-> b.store, allowed |-> TRUE,
                             info |-> [remaining |-> Min(m.info.remaining, h.info.remaining),
                                       reset_at |-> m.info.reset_at]]

\* is_allowed while every command raises: each check takes its except
\* branch (allowed), _check_burst returns True
IsAllowedDown(s) ==
    LET m == CheckLimitError(s, MinuteWindow)
        h == CheckLimitError(s, HourWindow)
    IN IF ~m.allowed THEN m
       ELSE IF ~h.allowed THEN h
       ELSE [store |-> s, allowed |-> TRUE,
             info |-> [remaining |-> Min(m.info.remaining, h.info.remaining),
                       reset_at |-> m.info.reset_at]]

IsAllowedNoClient(s) ==
    [store |-> s, allowed |-> TRUE,
     info |-> [remaining |-> NoClientRemaining, reset_at |-> now + FailOpenReset]]

is_allowed(s, identifier, endpoint, lapseM, lapseH) ==
    IF client = "none" THEN IsAllowedNoClient(s)
    ELSE IF ~up THEN IsAllowedDown(s)
    ELSE IsAllowedUp(s, identifier, endpoint, lapseM, lapseH)

----------------------------------------------------------------------------
(* IPBlocker *)

SecondsPerHour == 3600  \* block_ip: ttl = duration_hours * 3600

BlockKey(ip_address) == <<"blocked_ips", ip_address>>
WhitelistKey == <<"whitelisted_ips">>
Answering == client # "none" /\ up

is_blocked(s, ip_address) == Answering /\ Has(s, BlockKey(ip_address))

Sismember(s, k, member) == Has(s, k) /\ member \in s[k].val
is_whitelisted(s, ip_address) == Answering /\ Sismember(s, WhitelistKey, ip_address)

\* block_ip: the store after the call, and the value returned
block_ip(s, ip_address, reason, duration_hours) ==
    IF ~Answering THEN [store |-> s, ok |-> FALSE]
    ELSE LET block_info ==
                 [ip |-> ip_address, reason |-> reason, blocked_at |-> now,
                  expires_at |-> IF duration_hours > 0
                                 THEN <<now + duration_hours * SecondsPerHour>>
                                 ELSE <<"never">>]
         IN IF duration_hours > 0
            THEN [store |-> Setex(s, BlockKey(ip_address),
                                  duration_hours * SecondsPerHour, block_info),
                  ok |-> TRUE]
            ELSE [store |-> SetKey(s, BlockKey(ip_address), block_info), ok |-> TRUE]

unblock_ip(s, ip_address) ==
    IF ~Answering THEN [store |-> s, ok |-> FALSE]
    ELSE [store |-> Del(s, {BlockKey(ip_address)}), ok |-> Has(s, BlockKey(ip_address))]

\* SADD creates the set; SREM of the last member removes the key
Sadd(s, k, member) ==
    IF Has(s, k) THEN [s EXCEPT ![k].val = @ \cup {member}] ELSE SetKey(s, k, {member})
Srem(s, k, member) ==
    IF ~Has(s, k) THEN s
    ELSE IF s[k].val \ {member} = {} THEN Del(s, {k})
    ELSE [s EXCEPT ![k].val = @ \ {member}]

add_to_whitelist(s, ip_address) ==
    IF ~Answering THEN [store |-> s, ok |-> FALSE]
    ELSE [store |-> Sadd(s, WhitelistKey, ip_address),
          ok |-> ~Sismember(s, WhitelistKey, ip_address)]

remove_from_whitelist(s, ip_address) ==
    IF ~Answering THEN [store |-> s, ok |-> FALSE]
    ELSE [store |-> Srem(s, WhitelistKey, ip_address),
          ok |-> Sismember(s, WhitelistKey, ip_address)]

\* get_block_info: <<>> stands for None
get_block_info(s, ip_address) ==
    IF Answering /\ Has(s, BlockKey(ip_address))
    THEN <<[reason |-> s[BlockKey(ip_address)].val.reason,
            blocked_at |-> s[BlockKey(ip_address)].val.blocked_at]>>
    ELSE <<>>

----------------------------------------------------------------------------
(* SecurityMiddleware *)

AutoBlockViolations == 3   \* dispatch: violations >= 3
AutoBlockHours == 1        \* dispatch: duration_hours=1
DefaultRetryAfter == 60    \* dispatch: limit_info.get("retry_after", 60)

\* a path is a sequence of pieces of text; "/healthz" is <<"/health", "z">>
RECURSIVE PathText(_)
PathText(path) == IF path = <<>> THEN "" ELSE Head(path) \o PathText(Tail(path))

excluded_paths ==
    <<(<<"/docs">>), (<<"/redoc">>), (<<"/openapi.json">>), (<<"/health">>), (<<"/favicon.ico">>)>>

\* str.startswith
StartsWith(path, prefix) ==
    Len(prefix) <= Len(path) /\ SubSeq(path, 1, Len(prefix)) = prefix

_is_excluded_path(path) ==
    \E i \in 1..Len(excluded_paths) : StartsWith(path, excluded_paths[i])

\* a request: xff is the X-Forwarded-For chain (<<>> when the header is
\* missing), real_ip the X-Real-IP header and peer request.client.host
\* ("" when missing)
_get_client_ip(request) ==
    IF request.xff # <<>> THEN Head(request.xff)
    ELSE IF request.real_ip # "" THEN request.real_ip
    ELSE IF request.peer # "" THEN request.peer
    ELSE "unknown"

EndpointOf(request) == request.method \o ":" \o PathText(request.path)

\* dict.get
DictGet(d, key, default) == IF key \in DOMAIN d THEN d[key] ELSE default

NoHeaders == [h \in {} |-> 0]
HardeningHeaders ==
    [h \in {"X-Content-Type-Options", "X-Frame-Options", "X-XSS-Protection",
            "Strict-Transport-Security"} |-> 1]

\* _add_security_headers; rate_limit is <<>> for None, <<limit_info>> otherwise
_add_security_headers(headers, rate_limit, whitelisted) ==
    LET h1 == HardeningHeaders @@ headers
        h2 == IF rate_limit # <<>>
              THEN [h \in {"X-RateLimit-Limit", "X-RateLimit-Remaining", "X-RateLimit-Reset"} |->
                       CASE h = "X-RateLimit-Limit" -> DictGet(rate_limit[1], "limit", 0)
                         [] h = "X-RateLimit-Remaining" -> DictGet(rate_limit[1], "remaining", 0)
                         [] OTHER -> DictGet(rate_limit[1], "reset_at", 0)] @@ h1
              ELSE h1
    IN IF whitelisted THEN ("X-Security-Bypass" :> 1) @@ h2 ELSE h2

\* the handler's own response, and the answers dispatch builds itself
Forwarded(s, headers, calls, consulted) ==
    [store |-> s, status |-> 200, headers |-> headers, handler_calls |-> calls,
     consulted |-> consulted, raised |-> FALSE]
RejectedButHandled(s, status, headers, consulted) ==
    [store |-> s, status |-> status, headers |-> headers, handler_calls |-> 1,
     consulted |-> consulted, raised |-> FALSE]
Rejected(s, status, headers, consulted) ==
    [store |-> s, status |-> status, headers |-> headers, handler_calls |-> 0,
     consulted |-> consulted, raised |-> FALSE]

\* the except branch of dispatch: call_next once more, response returned as it is
FailClosed(s, calls, consulted) ==
    [Rejected(s, 500, NoHeaders, consulted) EXCEPT !.raised = TRUE]
FailOpen(s, calls, consulted) ==
    [Forwarded(s, NoHeaders, calls + 1, consulted) EXCEPT !.raised = TRUE]

\* dispatch from the rate limiting step on
DispatchLimited(s, request, client_ip, fault, lapseM, lapseH) ==
    IF ~cfg.enable_rate_limiting
    THEN IF fault \in {"handler", "annotate"} THEN FailOpen(s, 1, <<>>)
         ELSE Forwarded(s, ("X-Process-Time" :> 1) @@
                           _add_security_headers(NoHeaders, <<>>, FALSE), 1, <<>>)
    ELSE IF fault = "rate_limit" THEN FailOpen(s, 0, <<>>)
    ELSE LET r == is_allowed(s, client_ip, EndpointOf(request), lapseM, lapseH)
             violations == DictGet(r.info, "violations", 0)
             s1 == IF violations >= AutoBlockViolations
                   THEN block_ip(r.store, client_ip, "excessive_rate_limit_violations",
                                 AutoBlockHours).store
                   ELSE r.store
             retry == DictGet(r.info, "retry_after", DefaultRetryAfter)
         IN IF ~r.allowed
            THEN Rejected(s1, 429,
                          ("X-RateLimit-Limit" :> DictGet(r.info, "limit", 0)) @@
                          ("X-RateLimit-Remaining" :> 0) @@
                          ("X-RateLimit-Reset" :> DictGet(r.info, "reset_at", 0)) @@
                          ("Retry-After" :> retry), <<r>>)
            ELSE IF fault \in {"handler", "annotate"} THEN FailOpen(r.store, 1, <<r>>)
            ELSE Forwarded(r.store, ("X-Process-Time" :> 1) @@
                              _add_security_headers(NoHeaders, <<r.info>>, FALSE), 1, <<r>>)

\* dispatch from the whitelist step on, with IP blocking enabled
DispatchListedBlockFirst(s, request, client_ip, fault, lapseM, lapseH) ==
    IF fault = "block" THEN FailOpen(s, 0, <<>>)
    ELSE IF is_blocked(s, client_ip) THEN Rejected(s, 403, NoHeaders, <<>>)
    ELSE IF fault = "whitelist" THEN FailOpen(s, 0, <<>>)
    ELSE IF is_whitelisted(s, client_ip)
    THEN IF fault \in {"handler", "annotate"} THEN FailOpen(s, 1, <<>>)
         ELSE Forwarded(s, _add_security_headers(NoHeaders, <<>>, TRUE), 1, <<>>)
    ELSE DispatchLimited(s, request, client_ip, fault, lapseM, lapseH)
DispatchListed(s, request, client_ip, fault, lapseM, lapseH) ==
    IF fault = "whitelist" THEN FailOpen(s, 0, <<>>)
    ELSE IF is_whitelisted(s, client_ip)
    THEN IF fault \in {"handler", "annotate"} THEN FailOpen(s, 1, <<>>)
         ELSE Forwarded(s, _add_security_headers(NoHeaders, <<>>, TRUE), 1, <<>>)
    ELSE IF fault = "block" THEN FailOpen(s, 0, <<>>)
    ELSE IF is_blocked(s, client_ip) THEN Rejected(s, 403, NoHeaders, <<>>)
    ELSE DispatchLimited(s, request, client_ip, fault, lapseM, lapseH)

\* dispatch.  fault names the step that raises an unexpected exception, if any:
\* "handler" is call_next raising at its first invocation, "annotate" the
\* annotation of the response it returned
dispatch(s, request, fault, lapseM, lapseH) ==
    IF _is_excluded_path(request.path)
    THEN IF fault = "handler" THEN FailOpen(s, 1, <<>>) ELSE Forwarded(s, NoHeaders, 1, <<>>)
    ELSE IF fault = "client_ip" THEN FailOpen(s, 0, <<>>)
    ELSE IF cfg.enable_ip_blocking
    THEN DispatchListed(s, request, _get_client_ip(request), fault, lapseM, lapseH)
    ELSE DispatchLimited(s, request, _get_client_ip(request), fault, lapseM, lapseH)

----------------------------------------------------------------------------
(* RedisCache: the adapter's own operations *)

DefaultCacheTtl == 3600    \* RedisCache.set: os.getenv("CACHE_TTL", 3600)

HitsKey == <<"cache_stats", "hits">>
MissesKey == <<"cache_stats", "misses">>

\* json.dumps / json.loads of a dict: the stored text, and the dict read back
Dumps(value) == [json |-> value]
Loads(text) == text.json

\* RedisCache.get: <<>> stands for None.  The stored text of a dict is never
\* empty, so a stored key counts a hit
CacheGet(s, key) ==
    IF ~Answering THEN [store |-> s, value |-> <<>>]
    ELSE IF Has(s, key) THEN [store |-> Incr(s, HitsKey), value |-> <<Loads(s[key].val)>>]
    ELSE [store |-> Incr(s, MissesKey), value |-> <<>>]

\* RedisCache.set: ttl 0 stands for None
CacheSet(s, key, value, ttl) ==
    IF ~Answering THEN [store |-> s, ok |-> FALSE]
    ELSE [store |-> Setex(s, key, IF ttl # 0 THEN ttl ELSE DefaultCacheTtl, Dumps(value)),
          ok |-> TRUE]

\* RedisCache.delete, RedisCache.exists, RedisCache.health_check
CacheDelete(s, key) ==
    IF ~Answering THEN [store |-> s, ok |-> FALSE]
    ELSE [store |-> Del(s, {key}), ok |-> Has(s, key)]
CacheExists(s, key) == Answering /\ Has(s, key)
health_check == Answering

\* RedisCache.__init__: connect is what redis.Redis(...) and ping() do: they
\* return ("ok"), raise redis.ConnectionError, or raise another exception
\* (socket_connect_timeout elapsing raises redis.TimeoutError).  Only
\* redis.ConnectionError is caught
ConnectOutcomes == {"ok", "ConnectionError", "TimeoutError"}
RedisCacheInit(connect) ==
    CASE connect = "ok" -> [client |-> "conn", raised |-> FALSE]
      [] connect = "ConnectionError" -> [client |-> "none", raised |-> FALSE]
      [] OTHER -> [client |-> "unbuilt", raised |-> TRUE]

EmptyInfo == [empty |-> TRUE]    \* the dict {}

\* RedisCache.clear_pattern: the store after the call and the number of keys deleted
clear_pattern(s, pattern) ==
    IF ~Answering THEN [store |-> s, deleted |-> 0]
    ELSE [store |-> Del(s, Keys(s, pattern)), deleted |-> Cardinality(Keys(s, pattern))]

----------------------------------------------------------------------------
(* RateLimiter: the administrative operations *)

\* reset: True when clear_pattern deleted a key
reset(s, identifier, endpoint) ==
    LET res == clear_pattern(s, <<"rate_limit", identifier, endpoint, "*">>)
    IN [store |-> res.store, ok |-> res.deleted > 0]

\* int(client.get(key) or 0)
CountOf(s, key) == IF Has(s, key) THEN s[key].val ELSE 0
Max(a, b) == IF a >= b THEN a ELSE b

\* the dict get_limit_info returns from the two counts
LimitInfo(identifier, endpoint, minute_count, hour_count) ==
    [identifier |-> identifier, endpoint |-> endpoint,
     minute_used |-> minute_count,
     minute_limit |-> cfg.rate_per_minute,
     minute_remaining |-> Max(0, cfg.rate_per_minute - minute_count),
     hour_used |-> hour_count,
     hour_limit |-> cfg.rate_per_hour,
     hour_remaining |-> Max(0, cfg.rate_per_hour - hour_count)]

\* get_limit_info: client.get on both counters, past RedisCache.get and its
\* statistics; {} when client is None or a command raises
get_limit_info_cached(s, identifier, endpoint) ==
    IF ~Answering THEN [store |-> s, info |-> EmptyInfo]
    ELSE LET m == CacheGet(s, RateKey(identifier, endpoint, "minute"))
             h == CacheGet(m.store, RateKey(identifier, endpoint, "hour"))
         IN [store |-> h.store,
             info |-> LimitInfo(identifier, endpoint,
                                CountOf(s, RateKey(identifier, endpoint, "minute")),
                                CountOf(s, RateKey(identifier, endpoint, "hour")))]
get_limit_info(s, identifier, endpoint) ==
    IF ~Answering THEN [store |-> s, info |-> EmptyInfo]
    ELSE [store |-> s,
          info |-> LimitInfo(identifier, endpoint,
                             CountOf(s, RateKey(identifier, endpoint, "minute")),
                             CountOf(s, RateKey(identifier, endpoint, "hour")))]

----------------------------------------------------------------------------
(* SemanticCacheStrategy *)

ScanCap == 50      \* _find_similar_cached_query: cache_keys[:50]

\* The embedding capability is external: a table from the queries of the
\* model to vectors whose components count units of 0.00005
Queries == {"q1", "q2", "q3"}
Encode(text) ==
    CASE text = "q1" -> <<6, 8>>
      [] text = "q2" -> <<6, 7>>
      [] OTHER -> <<10, 0>>
\* hash(text) % 1000 of the fallback
TextHash(text) ==
    CASE text = "q1" -> 7
      [] text = "q2" -> 3
      [] OTHER -> 0

_generate_embedding(text) ==
    IF ~cfg.embedding_model THEN <<TextHash(text)>> ELSE Encode(text)

\* np.round(x, decimals=4) of one component: to the nearest multiple of
\* 0.0001 (two units), halves to the even multiple.  Whole numbers (the
\* fallback) are left as they are
RoundHalfEven(x) ==
    IF x % 2 = 0 THEN x
    ELSE IF ((x - 1) \div 2) % 2 = 0 THEN x - 1 ELSE x + 1
Rounded(embedding) ==
    IF cfg.embedding_model THEN [i \in DOMAIN embedding |-> RoundHalfEven(embedding[i])]
    ELSE embedding
\* md5(...).hexdigest(), taken as free of collisions: the text of the rounded vector
_embedding_to_hash(embedding) == ToString(Rounded(embedding))

\* a similarity is kept exact: dot / sqrt(nn), nn the product of the squared norms
RECURSIVE Dot(_, _)
Dot(a, b) == IF a = <<>> THEN 0 ELSE Head(a) * Head(b) + Dot(Tail(a), Tail(b))
_cosine_similarity(emb1, emb2) == [dot |-> Dot(emb1, emb2), nn |-> Dot(emb1, emb1) * Dot(emb2, emb2)]
SimZero == [dot |-> 0, nn |-> 1]
SimOne == [dot |-> 1, nn |-> 1]
IsNan(x) == x.nn = 0
\* x > y and x >= y on floats; every comparison with nan is false
SimGt(x, y) ==
    /\ ~IsNan(x) /\ ~IsNan(y)
    /\ IF x.dot >= 0 /\ y.dot < 0 THEN TRUE
       ELSE IF x.dot < 0 /\ y.dot >= 0 THEN FALSE
       ELSE IF x.dot >= 0 THEN x.dot * x.dot * y.nn > y.dot * y.dot * x.nn
       ELSE x.dot * x.dot * y.nn < y.dot * y.dot * x.nn
SimGeStrict(x, y) == SimGt(x, y)
SimGe(x, y) == ~IsNan(x) /\ ~IsNan(y) /\ ~SimGt(y, x)
\* the threshold is a fraction <<num, den>>
Threshold == [dot |-> cfg.similarity_threshold[1],
              nn |-> cfg.similarity_threshold[2] * cfg.similarity_threshold[2]]

\* a dict is a set of <<key, value>> pairs with one pair per key
EmptyDict == {}
DictPut(d, key, value) == {p \in d : p[1] # key} \cup {<<key, value>>}
DictHas(d, key) == \E p \in d : p[1] = key
DictAt(d, key) == (CHOOSE p \in d : p[1] = key)[2]
DictDrop(d, keys) == {p \in d : p[1] \notin keys}
\* truth value of a dict
Truthy(d) == d # EmptyDict

\* {**cached, "cached": True, "cache_similarity": similarity}
Annotated(cached, similarity) ==
    DictPut(DictPut(cached, "cached", TRUE), "cache_similarity", similarity)

CacheKey(embedding_hash, language) == <<"query_cache", embedding_hash, language>>
MetadataKey(embedding_hash, language) == <<"metadata", embedding_hash, language>>

\* client.keys("query_cache:*:{language}")
CandidateKeys(s, language) == Keys(s, <<"query_cache", "*", language>>)

\* the loop of _find_similar_cached_query over cache_keys, in the order the
\* store listed them; best is [match, sim], match <<>> for None
RECURSIVE ScanKeys(_, _, _, _)
ScanKeys(s, cache_keys, query_embedding, best) ==
    IF cache_keys = <<>> THEN [store |-> s, match |-> best.match]
    ELSE LET cache_key == Head(cache_keys)
             md == CacheGet(s, MetadataKey(cache_key[2], cache_key[3]))
             rest == Tail(cache_keys)
         IN IF md.value = <<>> \/ ~Truthy(md.value[1]) \/ ~DictHas(md.value[1], "embedding")
            THEN ScanKeys(md.store, rest, query_embedding, best)
            ELSE IF Len(DictAt(md.value[1], "embedding")) # Len(query_embedding)
            THEN ScanKeys(md.store, rest, query_embedding, best)  \* np.dot raises
            ELSE LET similarity ==
                         _cosine_similarity(query_embedding, DictAt(md.value[1], "embedding"))
                 IN IF SimGt(similarity, best.sim) /\ SimGe(similarity, Threshold)
                    THEN LET response == CacheGet(md.store, cache_key)
                         IN IF response.value # <<>> /\ Truthy(response.value[1])
                            THEN ScanKeys(response.store, rest, query_embedding,
                                          [match |-> <<Annotated(response.value[1], similarity)>>,
                                           sim |-> similarity])
                            ELSE ScanKeys(response.store, rest, query_embedding,
                                          [match |-> best.match, sim |-> similarity])
                    ELSE ScanKeys(md.store, rest, query_embedding, best)

\* _find_similar_cached_query; listing is the order of client.keys(pattern)
_find_similar_cached_query(s, query_embedding, language, listing) ==
    IF ~Answering THEN [store |-> s, match |-> <<>>]
    ELSE ScanKeys(s, SubSeq(listing, 1, Min(Len(listing), ScanCap)), query_embedding,
                  [match |-> <<>>, sim |-> SimZero])

\* get_cached_response: the store after the call and the value returned
get_cached_response(s, query, language, listing) ==
    IF client = "none" THEN [store |-> s, value |-> <<>>]
    ELSE LET query_embedding == _generate_embedding(query)
             cache_key == CacheKey(_embedding_to_hash(query_embedding), language)
             cached == CacheGet(s, cache_key)
         IN IF cached.value # <<>> /\ Truthy(cached.value[1])
            THEN [store |-> cached.store, value |-> <<Annotated(cached.value[1], SimOne)>>]
            ELSE LET similar == _find_similar_cached_query(cached.store, query_embedding,
                                                           language, listing)
                 IN [store |-> similar.store, value |-> similar.match]

\* cache_response; timestamp is time.time()
cache_response(s, query, response, language, ttl) ==
    IF client = "none" THEN [store |-> s, ok |-> FALSE]
    ELSE LET query_embedding == _generate_embedding(query)
             embedding_hash == _embedding_to_hash(query_embedding)
             entry == CacheSet(s, CacheKey(embedding_hash, language), response, ttl)
             metadata == {<<"query", query>>, <<"embedding", query_embedding>>,
                          <<"language", language>>, <<"timestamp", now>>}
             both == CacheSet(entry.store, MetadataKey(embedding_hash, language), metadata, ttl)
         IN [store |-> both.store, ok |-> entry.ok]

\* clear_cache: the pattern given, then always metadata:*
clear_cache(s, pattern) ==
    LET cleared == clear_pattern(s, pattern)
        metadata_cleared == clear_pattern(cleared.store, <<"metadata", "*">>)
    IN [store |-> metadata_cleared.store, cleared |-> cleared.deleted]

----------------------------------------------------------------------------
(* cache_query: the wrapper around a pipeline *)

\* an invocation of the wrapped function returns <<response>> or raises (<<>>)
Raises == <<>>
\* the except branch: the function is invoked again, outside the try
wrapperRetried(s, again, consulted) ==
    [store |-> s, consulted |-> consulted, hit |-> FALSE, calls |-> 2, result |-> again]
\* wrapper with similarity_threshold None: first and again are what the
\* first and the second invocation of the function do
wrapper(s, query, language, first, again, listing) ==
    IF query = ""
    THEN IF first = Raises THEN wrapperRetried(s, again, FALSE)
         ELSE [store |-> s, consulted |-> FALSE, hit |-> FALSE, calls |-> 1, result |-> first]
    ELSE LET cached_response == get_cached_response(s, query, language, listing)
         IN IF cached_response.value # <<>>
            THEN [store |-> cached_response.store, consulted |-> TRUE, hit |-> TRUE,
                  calls |-> 0,
                  result |-> <<DictPut(DictPut(cached_response.value[1], "search_time_ms", 0),
                                       "from_cache", TRUE)>>]
            ELSE IF first = Raises
            THEN wrapperRetried(cached_response.store, again, TRUE)
            ELSE LET response == first[1]
                 IN IF Truthy(response)
                    THEN [store |-> cache_response(cached_response.store, query, response,
                                                   language, 0).store,
                          consulted |-> TRUE, hit |-> FALSE, calls |-> 1,
                          result |-> <<DictPut(DictPut(DictPut(response, "cached", FALSE),
                                                       "from_cache", FALSE),
                                               "search_time_ms", 0)>>]
                    ELSE [store |-> cached_response.store, consulted |-> TRUE,
                          hit |-> FALSE, calls |-> 1, result |-> first]

----------------------------------------------------------------------------
(* The state machine *)

Languages == {"English", "Hindi"}
Payloads == {EmptyDict, {<<"answer", "A">>}, {<<"answer", "B">>}}
Paths == {<<"/health">>, <<"/health", "z">>, <<"/query">>}
Requests ==
    [method : {"GET"}, path : Paths, xff : {<<>>, <<"ip1", "ip2">>},
     real_ip : {"", "ip2"}, peer : {"", "ip2"}]
Endpoints == {"GET:/query"}
Faults == {"none", "client_ip", "whitelist", "block", "rate_limit", "handler", "annotate"}
\* METHOD:/path of a request for /q%5B1%5D is "GET:/q[1]"
LimiterEndpoints == Endpoints \cup {BracketEndpoint}
\* endpoints whose paths extend one another, by a segment and by a colon
PairEndpoints == {"GET:/query", "GET:/query/stream", ColonEndpoint}
Pairs == Ids \X (LimiterEndpoints \cup PairEndpoints)

\* what a call of is_allowed adds to the record of the pair's window.  The
\* window starts with a call that finds neither counter; it is no longer one
\* window once a counter expired alone or the store did not answer
Observed(res) ==
    [allowed |-> res.allowed, remaining |-> res.info.remaining,
     reason |-> DictGet(res.info, "reason", "none")]
RunAfter(r, s, identifier, endpoint, res, lapsed) ==
    LET p == <<identifier, endpoint>>
        hasM == Has(s, RateKey(identifier, endpoint, "minute"))
        hasH == Has(s, RateKey(identifier, endpoint, "hour"))
    IN IF ~Answering \/ lapsed THEN [r EXCEPT ![p] = [valid |-> FALSE, calls |-> <<>>]]
       ELSE IF ~hasM /\ ~hasH
       THEN [r EXCEPT ![p] = [valid |-> TRUE, calls |-> <<Observed(res)>>]]
       ELSE IF hasM /\ hasH /\ r[p].valid
       THEN IF Len(r[p].calls) <= MaxRate
            THEN [r EXCEPT ![p].calls = Append(@, Observed(res))]
            ELSE r
       ELSE [r EXCEPT ![p] = [valid |-> FALSE, calls |-> <<>>]]

DefaultThreshold == <<23, 25>>    \* CACHE_SIMILARITY_THRESHOLD 0.92

Configs ==
    [rate_per_minute : 1..MaxRate, rate_per_hour : 1..MaxRate, burst : 1..MaxRate,
     enable_rate_limiting : BOOLEAN, enable_ip_blocking : BOOLEAN,
     embedding_model : BOOLEAN, similarity_threshold : {DefaultThreshold, <<3, 5>>}]

\* callers that run concurrently; none of them is in a call
Callers == {"a", "b"}
NoCalls ==
    [pc |-> [c \in Callers |-> "idle"], local |-> [c \in Callers |-> <<>>],
     admitted |-> [kind \in {"minute", "hour"} |-> 0]]

\* the state after construction: an empty store; RedisCache.__init__ leaves
\* client None when the connection fails
InitWith(c) ==
    /\ client \in {"conn", "none"}
    /\ up = (client = "conn")
    /\ kv = [k \in {} |-> 0]
    /\ now = 0
    /\ ticks = 0
    /\ cfg = c
    /\ last = [op |-> "init"]
    /\ run = [p \in Pairs |-> [valid |-> FALSE, calls |-> <<>>]]
    /\ rejections = [ip \in Ids |-> 0]
    /\ inflight = NoCalls

\* time passes
Tick(d) ==
    /\ ticks < MaxTicks
    /\ now' = now + d
    /\ ticks' = ticks + 1
    /\ kv' = Aged(kv, d)
    /\ last' = [op |-> "tick", d |-> d]
    /\ UNCHANGED <<client, up, cfg, run, rejections, inflight>>

\* the store stops answering, and answers again
Outage ==
    /\ client = "conn" /\ up
    /\ up' = FALSE
    /\ last' = [op |-> "outage"]
    /\ UNCHANGED <<client, kv, now, ticks, cfg, run, rejections, inflight>>
Recover ==
    /\ client = "conn" /\ ~up
    /\ up' = TRUE
    /\ last' = [op |-> "recover"]
    /\ UNCHANGED <<client, kv, now, ticks, cfg, run, rejections, inflight>>

LapseChoices(identifier, endpoint, kind) ==
    IF Answering /\ CanLapse(kv, RateKey(identifier, endpoint, kind)) THEN BOOLEAN ELSE {FALSE}

IsAllowed(identifier, endpoint) ==
    \E lapseM \in LapseChoices(identifier, endpoint, "minute"),
       lapseH \in LapseChoices(identifier, endpoint, "hour") :
        LET res == is_allowed(kv, identifier, endpoint, lapseM, lapseH)
        IN /\ kv' = res.store
           /\ last' = [op |-> "is_allowed", identifier |-> identifier, endpoint |-> endpoint,
                       allowed |-> res.allowed, info |-> res.info,
                       lapsed |-> lapseM \/ lapseH]
           /\ run' = RunAfter(run, kv, identifier, endpoint, res, lapseM \/ lapseH)
           /\ UNCHANGED <<client, up, now, ticks, cfg, rejections, inflight>>

Reset(identifier, endpoint) ==
    LET res == reset(kv, identifier, endpoint)
    IN /\ kv' = res.store
       /\ last' = [op |-> "reset", identifier |-> identifier, endpoint |-> endpoint,
                   result |-> res.ok]
       /\ run' = [p \in Pairs |->
                    IF p[1] = identifier /\ endpoint \in {p[2], "*"}
                    THEN [valid |-> FALSE, calls |-> <<>>] ELSE run[p]]
       /\ UNCHANGED <<client, up, now, ticks, cfg, rejections, inflight>>

GetLimitInfo(identifier, endpoint) ==
    LET res == get_limit_info(kv, identifier, endpoint)
    IN /\ kv' = res.store
       /\ last' = [op |-> "get_limit_info", identifier |-> identifier,
                   endpoint |-> endpoint, info |-> res.info]
       /\ UNCHANGED <<client, up, now, ticks, cfg, run, rejections, inflight>>

IsBlocked(ip_address) ==
    /\ last' = [op |-> "is_blocked", ip |-> ip_address, result |-> is_blocked(kv, ip_address)]
    /\ UNCHANGED <<client, up, kv, now, ticks, cfg, run, rejections, inflight>>

BlockIp(ip_address, duration_hours) ==
    LET res == block_ip(kv, ip_address, "abuse", duration_hours)
    IN /\ kv' = res.store
       /\ last' = [op |-> "block_ip", ip |-> ip_address, hours |-> duration_hours,
                   result |-> res.ok]
       /\ UNCHANGED <<client, up, now, ticks, cfg, run, rejections, inflight>>

UnblockIp(ip_address) ==
    LET res == unblock_ip(kv, ip_address)
    IN /\ kv' = res.store
       /\ last' = [op |-> "unblock_ip", ip |-> ip_address, result |-> res.ok]
       /\ UNCHANGED <<client, up, now, ticks, cfg, run, rejections, inflight>>

AddToWhitelist(ip_address) ==
    LET res == add_to_whitelist(kv, ip_address)
    IN /\ kv' = res.store
       /\ last' = [op |-> "add_to_whitelist", ip |-> ip_address, result |-> res.ok]
       /\ UNCHANGED <<client, up, now, ticks, cfg, run, rejections, inflight>>

RemoveFromWhitelist(ip_address) ==
    LET res == remove_from_whitelist(kv, ip_address)
    IN /\ kv' = res.store
       /\ last' = [op |-> "remove_from_whitelist", ip |-> ip_address, result |-> res.ok]
       /\ UNCHANGED <<client, up, now, ticks, cfg, run, rejections, inflight>>

\* one request through the middleware
Dispatch(request, fault) ==
    LET ip == _get_client_ip(request)
        ep == EndpointOf(request)
    IN \E lapseM \in LapseChoices(ip, ep, "minute"), lapseH \in LapseChoices(ip, ep, "hour") :
        LET res == dispatch(kv, request, fault, lapseM, lapseH)
        IN /\ kv' = res.store
           /\ last' = [op |-> "dispatch", request |-> request, client_ip |-> ip,
                       fault |-> fault, status |-> res.status, headers |-> res.headers,
                       handler_calls |-> res.handler_calls, consulted |-> res.consulted,
                       raised |-> res.raised]
           /\ run' = IF res.consulted = <<>> THEN run
                     ELSE RunAfter(run, kv, ip, ep, res.consulted[1], lapseM \/ lapseH)
           /\ rejections' = IF res.status = 429
                            THEN [rejections EXCEPT ![ip] = Min(@ + 1, AutoBlockViolations)]
                            ELSE rejections
           /\ UNCHANGED <<client, up, now, ticks, cfg, inflight>>

StatCount(s) ==
    (IF Has(s, HitsKey) THEN s[HitsKey].val ELSE 0)
    + (IF Has(s, MissesKey) THEN s[MissesKey].val ELSE 0)

\* the orders in which client.keys may list a set of keys
Listings(keys) ==
    {f \in [1..Cardinality(keys) -> keys] : \A i, j \in DOMAIN f : i # j => f[i] # f[j]}

GetCachedResponse(query, language) ==
    /\ StatCount(kv) <= MaxStats
    /\ \E listing \in Listings(CandidateKeys(kv, language)) :
        LET res == get_cached_response(kv, query, language, listing)
        IN /\ kv' = res.store
           /\ last' = [op |-> "get_cached_response", query |-> query, language |-> language,
                       value |-> res.value]
           /\ UNCHANGED <<client, up, now, ticks, cfg, run, rejections, inflight>>

\* the entries of the cache
CachedEntries(s) == {k \in DOMAIN s : k[1] = "query_cache"}

CacheResponse(query, response, language, ttl) ==
    LET res == cache_response(kv, query, response, language, ttl)
    IN /\ \/ Cardinality(CachedEntries(kv)) < MaxEntries
          \/ CacheKey(_embedding_to_hash(_generate_embedding(query)), language) \in DOMAIN kv
       /\ kv' = res.store
       /\ last' = [op |-> "cache_response", query |-> query, language |-> language,
                   response |-> response, result |-> res.ok]
       /\ UNCHANGED <<client, up, now, ticks, cfg, run, rejections, inflight>>

\* a call of a function decorated with cache_query
CacheQuery(query, language, first, again) ==
    /\ StatCount(kv) <= MaxStats
    /\ \/ Cardinality(CachedEntries(kv)) < MaxEntries
       \/ CacheKey(_embedding_to_hash(_generate_embedding(query)), language) \in DOMAIN kv
    /\ \E listing \in Listings(CandidateKeys(kv, language)) :
        LET res == wrapper(kv, query, language, first, again, listing)
        IN /\ kv' = res.store
           /\ last' = [op |-> "cache_query", query |-> query, language |-> language,
                       first |-> first, consulted |-> res.consulted, hit |-> res.hit,
                       calls |-> res.calls, result |-> res.result]
           /\ UNCHANGED <<client, up, now, ticks, cfg, run, rejections, inflight>>

\* wrapper with a similarity_threshold override, run by concurrent callers on
\* the one SemanticCache of get_semantic_cache.  A coroutine runs from one
\* await to the next without another one in between: the override and the
\* lookup are one stretch, the await of the function ends it
Overrides == {<<3, 5>>, <<19, 20>>}    \* 0.6 and 0.95
NoStretch == \A d \in Callers : inflight.pc[d] # "overridden"
WrapperOverride(c, query, language, similarity_threshold) ==
    /\ NoStretch
    /\ inflight.pc[c] = "idle"
    /\ StatCount(kv) <= MaxStats
    /\ cfg' = [cfg EXCEPT !.similarity_threshold = similarity_threshold]
    /\ inflight' = [inflight EXCEPT
                      !.pc[c] = "overridden",
                      !.local[c] = [original_threshold |-> cfg.similarity_threshold,
                                    query |-> query, language |-> language]]
    /\ last' = [op |-> "override", caller |-> c, similarity_threshold |-> similarity_threshold]
    /\ UNCHANGED <<client, up, kv, now, ticks, run, rejections>>
WrapperLookup(c) ==
    /\ inflight.pc[c] = "overridden"
    /\ \E listing \in Listings(CandidateKeys(kv, inflight.local[c].language)) :
        LET cached_response == get_cached_response(kv, inflight.local[c].query,
                                                   inflight.local[c].language, listing)
            hit == cached_response.value # <<>>
        IN /\ kv' = cached_response.store
           /\ cfg' = IF hit
                     THEN [cfg EXCEPT !.similarity_threshold = inflight.local[c].original_threshold]
                     ELSE cfg
           /\ inflight' = [inflight EXCEPT !.pc[c] = IF hit THEN "idle" ELSE "awaiting",
                                           !.local[c] = IF hit THEN <<>> ELSE @]
           /\ last' = [op |-> "lookup", caller |-> c, hit |-> hit]
    /\ UNCHANGED <<client, up, now, ticks, run, rejections>>
\* the function returns <<response>> or raises; the except branch awaits it again
WrapperResume(c, first) ==
    /\ NoStretch
    /\ inflight.pc[c] = "awaiting"
    /\ IF first = Raises
       THEN /\ inflight' = [inflight EXCEPT !.pc[c] = "retrying", !.local[c] = <<>>]
            /\ UNCHANGED <<kv, cfg>>
       ELSE /\ kv' = IF Truthy(first[1])
                     THEN cache_response(kv, inflight.local[c].query, first[1],
                                         inflight.local[c].language, 0).store
                     ELSE kv
            /\ cfg' = [cfg EXCEPT !.similarity_threshold = inflight.local[c].original_threshold]
            /\ inflight' = [inflight EXCEPT !.pc[c] = "idle", !.local[c] = <<>>]
    /\ last' = [op |-> "resume", caller |-> c, first |-> first]
    /\ UNCHANGED <<client, up, now, ticks, run, rejections>>
WrapperRetried(c, again) ==
    /\ NoStretch
    /\ inflight.pc[c] = "retrying"
    /\ inflight' = [inflight EXCEPT !.pc[c] = "idle"]
    /\ last' = [op |-> "retried", caller |-> c, result |-> again]
    /\ UNCHANGED <<client, up, kv, now, ticks, cfg, run, rejections>>

\* is_allowed run by concurrent callers, one store round at a time.  A caller
\* reads a counter (client.get), later acts on what it read (setex, or ttl, or
\* incr and ttl), and after both counters runs the burst check
LimitOf(kind) == IF kind = "minute" THEN cfg.rate_per_minute ELSE cfg.rate_per_hour
WindowOf(kind) == IF kind = "minute" THEN MinuteWindow ELSE HourWindow
CallerGet(c, identifier, endpoint, kind) ==
    /\ Answering
    /\ inflight.pc[c] = (IF kind = "minute" THEN "idle" ELSE "hour")
    /\ inflight' = [inflight EXCEPT
                      !.pc[c] = kind \o "_read",
                      !.local[c] = IF Has(kv, RateKey(identifier, endpoint, kind))
                                   THEN <<kv[RateKey(identifier, endpoint, kind)].val>>
                                   ELSE <<>>]
    /\ last' = [op |-> "client.get", caller |-> c, kind |-> kind]
    /\ UNCHANGED <<client, up, kv, now, ticks, cfg, run, rejections>>
CallerCheck(c, identifier, endpoint, kind) ==
    /\ Answering
    /\ inflight.pc[c] = kind \o "_read"
    /\ LET res == CheckLimitAfterGet(kv, RateKey(identifier, endpoint, kind),
                                     LimitOf(kind), WindowOf(kind), inflight.local[c])
       IN /\ kv' = res.store
          /\ inflight' = [inflight EXCEPT
                            !.pc[c] = IF ~res.allowed THEN "idle"
                                      ELSE IF kind = "minute" THEN "hour" ELSE "burst",
                            !.local[c] = <<>>,
                            !.admitted[kind] = IF res.allowed THEN @ + 1 ELSE @]
          /\ last' = [op |-> "_check_limit", caller |-> c, kind |-> kind,
                      allowed |-> res.allowed, info |-> res.info]
    /\ UNCHANGED <<client, up, now, ticks, cfg, run, rejections>>
CallerBurst(c, identifier, endpoint) ==
    /\ Answering
    /\ inflight.pc[c] = "burst"
    /\ kv' = CheckBurst(kv, identifier, endpoint).store
    /\ inflight' = [inflight EXCEPT !.pc[c] = "idle"]
    /\ last' = [op |-> "_check_burst", caller |-> c,
                allowed |-> CheckBurst(kv, identifier, endpoint).ok]
    /\ UNCHANGED <<client, up, now, ticks, cfg, run, rejections>>

\* get_redis_cache before the global instance exists: construction, which
\* leaves _redis_cache None when it raises
GetRedisCache(connect) ==
    /\ client = "unbuilt"
    /\ (connect = "ok") = up
    /\ client' = RedisCacheInit(connect).client
    /\ last' = [op |-> "get_redis_cache", connect |-> connect,
                raised |-> RedisCacheInit(connect).raised]
    /\ UNCHANGED <<up, kv, now, ticks, cfg, run, rejections, inflight>>

\* the store becomes reachable while the adapter is disconnected
StoreReturns ==
    /\ client = "none" /\ ~up
    /\ up' = TRUE
    /\ last' = [op |-> "store_returns"]
    /\ UNCHANGED <<client, kv, now, ticks, cfg, run, rejections, inflight>>

\* the adapter's operations, on the instance get_redis_cache returns
AdapterGet(key) ==
    /\ client # "unbuilt"
    /\ StatCount(kv) <= MaxStats
    /\ kv' = CacheGet(kv, key).store
    /\ last' = [op |-> "get", key |-> key, value |-> CacheGet(kv, key).value]
    /\ UNCHANGED <<client, up, now, ticks, cfg, run, rejections, inflight>>
AdapterSet(key, value, ttl) ==
    /\ client # "unbuilt"
    /\ kv' = CacheSet(kv, key, value, ttl).store
    /\ last' = [op |-> "set", key |-> key, result |-> CacheSet(kv, key, value, ttl).ok]
    /\ UNCHANGED <<client, up, now, ticks, cfg, run, rejections, inflight>>
AdapterDelete(key) ==
    /\ client # "unbuilt"
    /\ kv' = CacheDelete(kv, key).store
    /\ last' = [op |-> "delete", key |-> key, result |-> CacheDelete(kv, key).ok]
    /\ UNCHANGED <<client, up, now, ticks, cfg, run, rejections, inflight>>
AdapterExists(key) ==
    /\ client # "unbuilt"
    /\ last' = [op |-> "exists", key |-> key, result |-> CacheExists(kv, key)]
    /\ UNCHANGED <<client, up, kv, now, ticks, cfg, run, rejections, inflight>>
AdapterClearPattern(pattern) ==
    /\ client # "unbuilt"
    /\ kv' = clear_pattern(kv, pattern).store
    /\ last' = [op |-> "clear_pattern", pattern |-> pattern,
                deleted |-> clear_pattern(kv, pattern).deleted]
    /\ UNCHANGED <<client, up, now, ticks, cfg, run, rejections, inflight>>
AdapterHealthCheck ==
    /\ client # "unbuilt"
    /\ last' = [op |-> "health_check", result |-> health_check]
    /\ UNCHANGED <<client, up, kv, now, ticks, cfg, run, rejections, inflight>>

\* POST /cache/clear
ClearCache(pattern) ==
    LET res == clear_cache(kv, pattern)
    IN /\ kv' = res.store
       /\ last' = [op |-> "clear_cache", pattern |-> pattern, cleared |-> res.cleared]
       /\ UNCHANGED <<client, up, now, ticks, cfg, run, rejections, inflight>>

----------------------------------------------------------------------------
(* Specifications *)

\* the rate limiter on its own, for every configuration of its limits
InitLimiter ==
    \E c \in Configs :
        /\ c.enable_rate_limiting /\ c.enable_ip_blocking /\ c.embedding_model
        /\ c.similarity_threshold = DefaultThreshold
        /\ InitWith(c)
NextLimiter ==
    \/ \E id \in {"ip1"}, ep \in Endpoints : IsAllowed(id, ep)
    \/ \E d \in TickSteps : Tick(d)
    \/ Outage
    \/ Recover
SpecLimiter == InitLimiter /\ [][NextLimiter]_vars

\* the limiter with its administrative operations; reset's endpoint defaults
\* to "*"
ResetEndpoints == LimiterEndpoints \cup {"*"}
ResetSteps == {50}
InitReset ==
    \E c \in Configs :
        /\ c.enable_rate_limiting /\ c.enable_ip_blocking /\ c.embedding_model
        /\ c.similarity_threshold = DefaultThreshold
        /\ c.rate_per_hour = MaxRate /\ c.burst = MaxRate
        /\ InitWith(c)
NextReset ==
    \/ \E id \in {"ip1"}, ep \in LimiterEndpoints : IsAllowed(id, ep)
    \/ \E id \in {"ip1"}, ep \in ResetEndpoints : Reset(id, ep)
    \/ \E id \in {"ip1"}, ep \in LimiterEndpoints : GetLimitInfo(id, ep)
    \/ \E d \in ResetSteps : Tick(d)
    \/ Outage
    \/ Recover
SpecReset == InitReset /\ [][NextReset]_vars

\* reset among several pairs: two identifiers, and endpoints whose paths
\* extend one another
ResetPairs == ({"ip1"} \X PairEndpoints) \cup {<<"ip2", "GET:/query">>}
NextPairs ==
    \/ \E p \in ResetPairs : IsAllowed(p[1], p[2])
    \/ \E p \in ResetPairs : Reset(p[1], p[2])
InitPairs ==
    \E c \in Configs :
        /\ c.enable_rate_limiting /\ c.enable_ip_blocking /\ c.embedding_model
        /\ c.similarity_threshold = DefaultThreshold
        /\ c.rate_per_minute = 1 /\ c.rate_per_hour = MaxRate /\ c.burst = MaxRate
        /\ InitWith(c)
SpecPairs == InitPairs /\ [][NextPairs]_vars

\* the middleware in front of the blocker and the limiter.  The administrative
\* endpoints act on the addresses the requests can carry
AdminIps == {"ip1"}
BlockHours == {0, 1}
AdmissionSteps == {3600}
\* requests that arrive through the proxy: the client is the head of the chain
AdmissionRequests == {r \in Requests : r.xff # <<>> /\ r.real_ip = "" /\ r.peer = "ip2"}
NextAdmission ==
    \/ \E request \in AdmissionRequests : Dispatch(request, "none")
    \/ \E ip \in AdminIps : AddToWhitelist(ip)
    \/ \E ip \in AdminIps : RemoveFromWhitelist(ip)
    \/ \E ip \in AdminIps, hours \in BlockHours : BlockIp(ip, hours)
    \/ \E ip \in AdminIps : UnblockIp(ip)
    \/ \E d \in AdmissionSteps : Tick(d)
    \/ Outage
    \/ Recover

\* every setting of enable_rate_limiting and enable_ip_blocking
InitAdmission ==
    \E c \in Configs :
        /\ c.embedding_model /\ c.similarity_threshold = DefaultThreshold
        /\ c.rate_per_minute = MaxRate /\ c.rate_per_hour = MaxRate /\ c.burst = MaxRate
        /\ InitWith(c)
SpecAdmission == InitAdmission /\ [][NextAdmission]_vars

\* the middleware as main.py constructs it when the environment sets neither
\* ENABLE_RATE_LIMITING nor ENABLE_IP_BLOCKING: both flags are true
InitDefault ==
    \E c \in Configs :
        /\ c.enable_rate_limiting /\ c.enable_ip_blocking
        /\ c.embedding_model /\ c.similarity_threshold = DefaultThreshold
        /\ c.rate_per_minute = MaxRate /\ c.rate_per_hour = MaxRate /\ c.burst = MaxRate
        /\ InitWith(c)
SpecDefault == InitDefault /\ [][NextAdmission]_vars

\* the default middleware across the minute window: a minute later the
\* minute counter has expired and the hour counter has not
RetrySteps == {60}
NextRetry ==
    \/ \E request \in AdmissionRequests : Dispatch(request, "none")
    \/ \E d \in RetrySteps : Tick(d)
SpecRetry == InitDefault /\ [][NextRetry]_vars

\* the middleware when a step of dispatch raises an unexpected exception
NextFaults ==
    \/ \E request \in AdmissionRequests, fault \in Faults : Dispatch(request, fault)
    \/ \E ip \in AdminIps : AddToWhitelist(ip)
    \/ \E ip \in AdminIps, hours \in BlockHours : BlockIp(ip, hours)
    \/ Outage
    \/ Recover
SpecFaults == InitAdmission /\ [][NextFaults]_vars

\* the semantic cache on its own, with and without an embedding model
CacheTtls == {0}
CacheSteps == {3600}
CachePayloads == {EmptyDict, {<<"answer", "A">>}}
\* "query_cache:*" (the default) and "query_cache:*:Hindi"
ClearPatterns == {<<"query_cache", "*">>, <<"query_cache", "*", "Hindi">>}
InitCache ==
    \E c \in Configs :
        /\ c.enable_rate_limiting /\ c.enable_ip_blocking
        /\ c.similarity_threshold = DefaultThreshold
        /\ c.rate_per_minute = MaxRate /\ c.rate_per_hour = MaxRate /\ c.burst = MaxRate
        /\ InitWith(c)
NextCache ==
    \/ \E query \in Queries, response \in CachePayloads, language \in Languages, ttl \in CacheTtls :
          CacheResponse(query, response, language, ttl)
    \/ \E query \in Queries, language \in Languages : GetCachedResponse(query, language)
    \/ \E pattern \in ClearPatterns : ClearCache(pattern)
    \/ \E d \in CacheSteps : Tick(d)
SpecCache == InitCache /\ [][NextCache]_vars

\* POST /cache/clear beside the blocker, the limiter and the cache, all on the
\* one store.  The pattern is the request's: the default, "*" and the
\* patterns of the other key families
SweepPatterns == {<<"query_cache", "*">>, <<"*">>, <<"blocked_ips", "*">>,
                  <<"rate_limit", "*">>, <<"cache_stats", "*">>, <<"whitelisted_ips">>}
SweepQueries == {"q1"}
SweepLanguages == {"English"}
SweepResponses == {{<<"answer", "A">>}}
NextSweep ==
    \/ \E pattern \in SweepPatterns : ClearCache(pattern)
    \/ \E query \in SweepQueries, response \in SweepResponses, language \in SweepLanguages,
          ttl \in CacheTtls : CacheResponse(query, response, language, ttl)
    \/ \E query \in SweepQueries, language \in SweepLanguages : GetCachedResponse(query, language)
    \/ \E id \in AdminIps, ep \in Endpoints : IsAllowed(id, ep)
    \/ \E ip \in AdminIps : AddToWhitelist(ip)
    \/ \E ip \in AdminIps, hours \in BlockHours : BlockIp(ip, hours)
SpecSweep == InitDefault /\ [][NextSweep]_vars

\* the similarity search: one language, both thresholds, with and without
\* an embedding model
SearchLanguages == {"English"}
InitSearch ==
    \E c \in Configs :
        /\ c.enable_rate_limiting /\ c.enable_ip_blocking
        /\ c.rate_per_minute = MaxRate /\ c.rate_per_hour = MaxRate /\ c.burst = MaxRate
        /\ InitWith(c)
NextSearch ==
    \/ \E query \in Queries, response \in Payloads, language \in SearchLanguages :
          CacheResponse(query, response, language, 0)
    \/ \E query \in Queries, language \in SearchLanguages : GetCachedResponse(query, language)
SpecSearch == InitSearch /\ [][NextSearch]_vars

\* the cache under several languages.  language is the text of the request,
\* put into the key and into the pattern of the scan as it is
LookupLanguages == Languages \cup {"*"}
LanguagePayloads == {{<<"answer", "A">>}, {<<"answer", "B">>}}
NextLanguage ==
    \/ \E query \in Queries, response \in LanguagePayloads, language \in Languages :
          CacheResponse(query, response, language, 0)
    \/ \E query \in Queries, language \in LookupLanguages : GetCachedResponse(query, language)
SpecLanguage == InitCache /\ [][NextLanguage]_vars

\* decorated calls; the pipeline returns a dict or raises
WrapperQueries == {"", "q1", "q3"}
PipelineOutcomes == {Raises} \cup {<<r>> : r \in CachePayloads}
NextAside ==
    \/ \E query \in WrapperQueries, language \in Languages,
          first \in PipelineOutcomes, again \in PipelineOutcomes :
          CacheQuery(query, language, first, again)
    \/ \E d \in CacheSteps : Tick(d)
    \/ Outage
    \/ Recover
SpecAside == InitCache /\ [][NextAside]_vars

\* concurrent calls of functions decorated with cache_query, each with a
\* similarity_threshold of its own
OverrideQueries == {"q1", "q3"}
OverrideLanguages == {"English"}
NextOverride ==
    \/ \E c \in Callers, query \in OverrideQueries, language \in OverrideLanguages,
          similarity_threshold \in Overrides :
          WrapperOverride(c, query, language, similarity_threshold)
    \/ \E c \in Callers : WrapperLookup(c)
    \/ \E c \in Callers, first \in PipelineOutcomes : WrapperResume(c, first)
    \/ \E c \in Callers, again \in PipelineOutcomes : WrapperRetried(c, again)
SpecOverride == InitCache /\ [][NextOverride]_vars

\* concurrent callers of is_allowed for one pair, within one second
InitConcurrent ==
    \E c \in Configs :
        /\ c.enable_rate_limiting /\ c.enable_ip_blocking /\ c.embedding_model
        /\ c.similarity_threshold = DefaultThreshold
        /\ c.burst = MaxRate
        /\ InitWith(c)
        /\ client = "conn"
NextConcurrent ==
    \/ \E c \in Callers, kind \in {"minute", "hour"} : CallerGet(c, "ip1", "GET:/query", kind)
    \/ \E c \in Callers, kind \in {"minute", "hour"} : CallerCheck(c, "ip1", "GET:/query", kind)
    \/ \E c \in Callers : CallerBurst(c, "ip1", "GET:/query")
SpecConcurrent == InitConcurrent /\ [][NextConcurrent]_vars

\* the adapter from before its construction, with a store that may be
\* unreachable when get_redis_cache is first called
AdapterKeys == {<<"query_cache", "h", "English">>, <<"metadata", "h", "English">>}
AdapterTtls == {0, 60}
InitAdapter ==
    \E c \in Configs :
        /\ c.enable_rate_limiting /\ c.enable_ip_blocking /\ c.embedding_model
        /\ c.similarity_threshold = DefaultThreshold
        /\ c.rate_per_minute = MaxRate /\ c.rate_per_hour = MaxRate /\ c.burst = MaxRate
        /\ client = "unbuilt"
        /\ up \in BOOLEAN
        /\ kv = [k \in {} |-> 0]
        /\ now = 0
        /\ ticks = 0
        /\ cfg = c
        /\ last = [op |-> "init"]
        /\ run = [p \in Pairs |-> [valid |-> FALSE, calls |-> <<>>]]
        /\ rejections = [ip \in Ids |-> 0]
        /\ inflight = NoCalls
NextAdapter ==
    \/ \E connect \in ConnectOutcomes : GetRedisCache(connect)
    \/ \E key \in AdapterKeys : AdapterGet(key)
    \/ \E key \in AdapterKeys, value \in Payloads, ttl \in AdapterTtls : AdapterSet(key, value, ttl)
    \/ \E key \in AdapterKeys : AdapterDelete(key)
    \/ \E key \in AdapterKeys : AdapterExists(key)
    \/ \E pattern \in ClearPatterns : AdapterClearPattern(pattern)
    \/ AdapterHealthCheck
    \/ \E d \in CacheSteps : Tick(d)
    \/ Outage
    \/ Recover
    \/ StoreReturns
SpecAdapter == InitAdapter /\ [][NextAdapter]_vars

\* the three components that read the store on the request path, with a
\* store that stops answering and answers again
OutagePayloads == {{<<"answer", "A">>}}
OutageQueries == {"q1", "q3"}
InitOutage ==
    \E c \in Configs :
        /\ c.enable_rate_limiting /\ c.enable_ip_blocking
        /\ c.similarity_threshold = DefaultThreshold
        /\ c.rate_per_minute = MaxRate /\ c.rate_per_hour = MaxRate /\ c.burst = MaxRate
        /\ InitWith(c)
NextOutage ==
    \/ \E id \in AdminIps, ep \in Endpoints : IsAllowed(id, ep)
    \/ \E ip \in AdminIps : IsBlocked(ip)
    \/ \E ip \in AdminIps, hours \in BlockHours : BlockIp(ip, hours)
    \/ \E query \in OutageQueries, response \in OutagePayloads, language \in Languages :
          CacheResponse(query, response, language, 0)
    \/ \E query \in OutageQueries, language \in Languages : GetCachedResponse(query, language)
    \/ Outage
    \/ Recover
SpecOutage == InitOutage /\ [][NextOutage]_vars

----------------------------------------------------------------------------
(* Claims about the rate limiter *)

EffectiveLimit == Min(cfg.rate_per_minute, cfg.rate_per_hour)
WindowRuns == {run[p].calls : p \in {q \in Pairs : run[q].valid}}
CounterAt(identifier, endpoint, kind) ==
    IF Has(kv, RateKey(identifier, endpoint, kind))
    THEN kv[RateKey(identifier, endpoint, kind)].val ELSE 0

\* C2 as stated: from an empty window, each of the first N <= limit calls of
\* is_allowed is allowed and reports less remaining than the call before it,
\* and call limit+1 of the window is rejected (limit: the smaller of the
\* minute and the hour limit)
C2_CounterMonotonicity ==
    \A calls \in WindowRuns : \A i \in 1..Len(calls) :
        /\ i <= EffectiveLimit =>
              /\ calls[i].allowed
              /\ i > 1 => calls[i].remaining < calls[i - 1].remaining
        /\ i = EffectiveLimit + 1 => ~calls[i].allowed

\* C2 amended: from an empty window, each of the first N <= limit calls is
\* allowed unless the burst check rejects it, the calls that are allowed
\* report strictly decreasing remaining, and call limit+1 is rejected
C2_CounterMonotonicityUnlessBurst ==
    \A calls \in WindowRuns : \A i \in 1..Len(calls) :
        /\ i <= EffectiveLimit =>
              calls[i].allowed \/ calls[i].reason = "burst_limit_exceeded"
        /\ \A j \in 1..Len(calls) :
              (j < i /\ calls[j].allowed /\ calls[i].allowed)
                  => calls[i].remaining < calls[j].remaining
        /\ i = EffectiveLimit + 1 => ~calls[i].allowed

\* a window of limit+1 calls, limit >= 2, the first limit of them allowed
C2_Witness ==
    /\ EffectiveLimit >= 2
    /\ \E calls \in WindowRuns :
          /\ Len(calls) = EffectiveLimit + 1
          /\ \A i \in 1..EffectiveLimit : calls[i].allowed
          /\ ~calls[EffectiveLimit + 1].allowed

\* burst entries of the pair not older than one second
RecentBurst(identifier, endpoint) ==
    IF Has(kv, RateKey(identifier, endpoint, "burst"))
    THEN Len(SelectSeq(kv[RateKey(identifier, endpoint, "burst")].val,
                       LAMBDA t : t >= now - 1))
    ELSE 0

\* C5: a call of is_allowed that follows burst calls of the same pair made
\* within the last second, and that finds the minute and hour counters under
\* their limits, is rejected with reason burst_limit_exceeded
C5_BurstDetection ==
    [][\A id \in Ids, ep \in Endpoints :
          ( /\ last'.op = "is_allowed"
            /\ last'.identifier = id /\ last'.endpoint = ep
            /\ Answering
            /\ RecentBurst(id, ep) >= cfg.burst
            /\ CounterAt(id, ep, "minute") < cfg.rate_per_minute
            /\ CounterAt(id, ep, "hour") < cfg.rate_per_hour )
          => ( /\ ~last'.allowed
               /\ DictGet(last'.info, "reason", "none") = "burst_limit_exceeded" )]_vars

\* call burst+1 of one second was rejected for the burst alone
C5_Witness ==
    /\ last.op = "is_allowed"
    /\ DictGet(last.info, "reason", "none") = "burst_limit_exceeded"
    /\ RecentBurst(last.identifier, last.endpoint) = cfg.burst + 1
    /\ CounterAt(last.identifier, last.endpoint, "minute") <= cfg.rate_per_minute
    /\ CounterAt(last.identifier, last.endpoint, "hour") <= cfg.rate_per_hour

\* C6: an exhausted minute or hour counter is due to expire within its
\* window, so that it is gone and rejects no more once the window has passed
C6_WindowReset ==
    \A id \in Ids, ep \in Endpoints :
        /\ CounterAt(id, ep, "minute") >= cfg.rate_per_minute =>
              Ttl(kv, RateKey(id, ep, "minute")) \in 1..MinuteWindow
        /\ CounterAt(id, ep, "hour") >= cfg.rate_per_hour =>
              Ttl(kv, RateKey(id, ep, "hour")) \in 1..HourWindow
----------------------------------------------------------------------------
(* Claims about the middleware *)

RateKeysOf(s) == {k \in DOMAIN s : k[1] = "rate_limit"}
RateState(s) == [k \in RateKeysOf(s) |-> s[k]]

\* C3: with both enable flags at their constructed value and no step raising,
\* the outcome of dispatch is that of the first condition that holds: excluded
\* path, forwarded with no check; whitelisted, forwarded with the bypass
\* marker; blocked, 403 without the handler; limiter says no, 429 with
\* Retry-After without the handler; otherwise forwarded and annotated.  The
\* limiter is consulted, and its keys change, only in the last two cases
C3_AdmissionOrder ==
    [][(last'.op = "dispatch" /\ last'.fault = "none") =>
        LET out == last'
            ip == out.client_ip
        IN IF _is_excluded_path(out.request.path)
           THEN /\ out.status = 200 /\ out.handler_calls = 1
                /\ out.headers = NoHeaders
                /\ out.consulted = <<>> /\ kv' = kv
           ELSE IF is_whitelisted(kv, ip)
           THEN /\ out.status = 200 /\ out.handler_calls = 1
                /\ "X-Security-Bypass" \in DOMAIN out.headers
                /\ out.consulted = <<>> /\ kv' = kv
           ELSE IF is_blocked(kv, ip)
           THEN /\ out.status = 403 /\ out.handler_calls = 0
                /\ out.consulted = <<>> /\ kv' = kv
           ELSE /\ out.consulted # <<>>
                /\ IF ~out.consulted[1].allowed
                   THEN /\ out.status = 429 /\ out.handler_calls = 0
                        /\ "Retry-After" \in DOMAIN out.headers
                   ELSE /\ out.status = 200 /\ out.handler_calls = 1
                        /\ "X-Process-Time" \in DOMAIN out.headers
                        /\ "X-RateLimit-Remaining" \in DOMAIN out.headers]_vars

\* a blocked address that is not whitelisted asked for a path that is not
\* excluded and got 403 without the handler
C3_Witness ==
    /\ last.op = "dispatch" /\ last.fault = "none"
    /\ ~_is_excluded_path(last.request.path)
    /\ ~is_whitelisted(kv, last.client_ip)
    /\ is_blocked(kv, last.client_ip)
    /\ RateKeysOf(kv) # {}
    /\ last.status = 403 /\ last.handler_calls = 0

\* C7: with both enable flags at their constructed value, a request whose
\* client IP is in the blocklist and in the whitelist is forwarded to the
\* handler and is not answered 403
C7_BlockPrecedence ==
    [][(/\ last'.op = "dispatch"
        /\ is_whitelisted(kv, last'.client_ip)
        /\ is_blocked(kv, last'.client_ip))
       => (last'.status = 200 /\ last'.handler_calls >= 1)]_vars

\* an address on both lists was forwarded with the bypass marker
C7_Witness ==
    /\ last.op = "dispatch"
    /\ ~_is_excluded_path(last.request.path)
    /\ is_whitelisted(kv, last.client_ip)
    /\ is_blocked(kv, last.client_ip)
    /\ last.status = 200
    /\ "X-Security-Bypass" \in DOMAIN last.headers

\* C8: for every setting of the enable flags, a request whose client IP is in
\* the whitelist is answered neither 403 nor 429, and handling it consults no
\* rate limiter and changes no minute, hour or burst key
C8_WhitelistBypass ==
    [][(last'.op = "dispatch" /\ is_whitelisted(kv, last'.client_ip))
       => /\ last'.status \notin {403, 429}
          /\ last'.consulted = <<>>
          /\ RateState(kv') = RateState(kv)]_vars

\* C9: a 429 given to a client that has by then been answered 429 three
\* times or more leaves a block record for the client's address
C9_AutoBlock ==
    \A ip \in Ids :
        ( /\ last.op = "dispatch" /\ last.status = 429 /\ last.client_ip = ip
          /\ rejections[ip] >= AutoBlockViolations )
        => Has(kv, BlockKey(ip))

\* C10: when a step of dispatch raises an unexpected exception, the request
\* is forwarded to the handler and the handler's response is returned as it is
C10_MiddlewareFailOpen ==
    (last.op = "dispatch" /\ last.raised)
        => /\ last.status = 200
           /\ last.handler_calls >= 1
           /\ last.headers = NoHeaders

\* the block check raised for an address that is blocked, and the request
\* went through
C10_Witness ==
    /\ last.op = "dispatch" /\ last.raised /\ last.fault = "block"
    /\ Answering /\ Has(kv, BlockKey(last.client_ip))
    /\ last.status = 200 /\ last.handler_calls = 1
----------------------------------------------------------------------------
(* Claims about the semantic cache *)

SimEq(x, y) == ~IsNan(x) /\ ~IsNan(y) /\ ~SimGt(x, y) /\ ~SimGt(y, x)

\* C4: with the store connected, get_cached_response(q, L) right after
\* cache_response(q, R, L) returns a result whose similarity is 1.0 and
\* whose payload is R
C4_RoundTrip ==
    [][( /\ last.op = "cache_response" /\ last.result /\ Answering
         /\ last'.op = "get_cached_response"
         /\ last'.query = last.query /\ last'.language = last.language )
       => ( /\ last'.value # <<>>
            /\ DictHas(last'.value[1], "cache_similarity")
            /\ SimEq(DictAt(last'.value[1], "cache_similarity"), SimOne)
            /\ DictDrop(last'.value[1], {"cached", "cache_similarity"}) = last.response )]_vars
----------------------------------------------------------------------------
(* Claims about the unreachable store *)

\* C1: while the store is unreachable (client is None, or every command
\* raises), is_allowed returns allowed, is_blocked returns false and
\* get_cached_response returns no match
C1_FailOpen ==
    ~Answering =>
        /\ last.op = "is_allowed" => last.allowed
        /\ last.op = "is_blocked" => ~last.result
        /\ last.op = "get_cached_response" => last.value = <<>>

\* the store went away with the minute counter exhausted, a block record and
\* a cache entry in it, and the call made then was allowed
C1_Witness ==
    /\ client = "conn" /\ ~up
    /\ last.op = "is_allowed" /\ last.allowed
    /\ CounterAt(last.identifier, last.endpoint, "minute") >= cfg.rate_per_minute
    /\ Has(kv, BlockKey(last.identifier))
    /\ CachedEntries(kv) # {}
----------------------------------------------------------------------------
(* Claims about the similarity search *)

ExactKey(query, language) ==
    CacheKey(_embedding_to_hash(_generate_embedding(query)), language)
\* the candidates a lookup scans: entries of the language with their
\* metadata, their stored response and their similarity to the query
Scanned(s, language) ==
    {k \in CandidateKeys(s, language) : Has(s, MetadataKey(k[2], k[3]))}
StoredResponse(s, k) == Loads(s[k].val)
SimilarityTo(s, k, query) ==
    _cosine_similarity(_generate_embedding(query),
                       DictAt(Loads(s[MetadataKey(k[2], k[3])].val), "embedding"))
\* a lookup that answered, with the store connected, after missing the exact key
SearchStep ==
    /\ last'.op = "get_cached_response"
    /\ Answering
    /\ ~(Has(kv, ExactKey(last'.query, last'.language))
         /\ Truthy(StoredResponse(kv, ExactKey(last'.query, last'.language))))
ReturnedPayload(value) == DictDrop(value[1], {"cached", "cache_similarity"})
ReturnedSimilarity(value) == DictAt(value[1], "cache_similarity")

\* C11: in the similarity search, a candidate whose similarity is below the
\* threshold is never returned, and a candidate whose similarity is exactly
\* the threshold, with no candidate above it, is returned as the match
C11_ThresholdBoundary ==
    [][SearchStep =>
        LET q == last'.query
            cands == Scanned(kv, last'.language)
        IN /\ last'.value # <<>> =>
                \E k \in cands :
                    /\ StoredResponse(kv, k) = ReturnedPayload(last'.value)
                    /\ SimilarityTo(kv, k, q) = ReturnedSimilarity(last'.value)
                    /\ ~SimGt(Threshold, SimilarityTo(kv, k, q))
           /\ ( /\ \E k \in cands : /\ SimEq(SimilarityTo(kv, k, q), Threshold)
                                    /\ Truthy(StoredResponse(kv, k))
                /\ \A k \in cands : ~SimGt(SimilarityTo(kv, k, q), Threshold) )
              => ( /\ last'.value # <<>>
                   /\ SimEq(ReturnedSimilarity(last'.value), Threshold) )]_vars

\* a lookup returned a candidate whose similarity is exactly the threshold
C11_Witness ==
    /\ last.op = "get_cached_response"
    /\ last.value # <<>>
    /\ SimEq(ReturnedSimilarity(last.value), Threshold)
    /\ ~SimEq(ReturnedSimilarity(last.value), SimOne)
\* the scanned candidates whose similarity meets or exceeds the threshold
Qualifying(s, language, query) ==
    {k \in Scanned(s, language) : ~IsNan(SimilarityTo(s, k, query))
                                  /\ ~SimGt(Threshold, SimilarityTo(s, k, query))}

\* C12: on an exact-match miss the lookup returns the stored response of a
\* qualifying candidate of the highest similarity, annotated with that
\* similarity, and returns no match only if no candidate qualifies
C12_BestMatch ==
    [][SearchStep =>
        LET q == last'.query
            best == Qualifying(kv, last'.language, q)
        IN IF best = {} THEN last'.value = <<>>
           ELSE /\ last'.value # <<>>
                /\ \E k \in best :
                    /\ \A j \in best : ~SimGt(SimilarityTo(kv, j, q), SimilarityTo(kv, k, q))
                    /\ StoredResponse(kv, k) = ReturnedPayload(last'.value)
                    /\ SimEq(ReturnedSimilarity(last'.value), SimilarityTo(kv, k, q))]_vars
----------------------------------------------------------------------------
(* Claims about the cache's keys *)

\* C13: in every state an entry query_cache:{h}:{L} exists if and only if
\* its metadata metadata:{h}:{L} exists
C13_EntryMetadataAtomicity ==
    \A k \in DOMAIN kv :
        /\ k[1] = "query_cache" => Has(kv, <<"metadata", k[2], k[3]>>)
        /\ k[1] = "metadata" => Has(kv, <<"query_cache", k[2], k[3]>>)
----------------------------------------------------------------------------
(* Claims about the limiter's keys *)

\* C14: every minute or hour counter in the store carries a TTL, and one no
\* longer than its window
C14_CounterExpiry ==
    \A k \in RateKeysOf(kv) :
        /\ k[4] = "minute" => (kv[k].ttl # NoTtl /\ kv[k].ttl <= MinuteWindow)
        /\ k[4] = "hour" => (kv[k].ttl # NoTtl /\ kv[k].ttl <= HourWindow)
----------------------------------------------------------------------------
(* Claims about the adapter *)

\* the safe default of each operation
SafeDefault(done) ==
    /\ done.op = "get" => done.value = <<>>
    /\ done.op \in {"set", "delete", "exists", "health_check"} => ~done.result
    /\ done.op = "clear_pattern" => done.deleted = 0

\* C15: when connecting fails during construction, construction does not
\* raise and leaves the adapter disconnected; a disconnected adapter stays
\* disconnected, and each of its operations returns its safe default and
\* leaves the store alone
C15_DisconnectedMode ==
    [][/\ (last'.op = "get_redis_cache" /\ last'.connect # "ok")
            => (~last'.raised /\ client' = "none")
       /\ client = "none"
            => (client' = "none" /\ (kv' = kv \/ last'.op = "tick") /\ SafeDefault(last'))]_vars
----------------------------------------------------------------------------
(* Claims about blocks *)

PermanentlyBlocked(s, ip) == Has(s, BlockKey(ip)) /\ s[BlockKey(ip)].ttl = NoTtl

\* C16: a successful block_ip(ip, reason, 0) leaves a block record without a
\* TTL, and a record without a TTL stays, without a TTL, through every step
\* that is not unblock_ip(ip)
C16_PermanentBlock ==
    [][\A ip \in Ids :
          /\ (last'.op = "block_ip" /\ last'.ip = ip /\ last'.hours = 0 /\ last'.result)
                => PermanentlyBlocked(kv', ip)
          /\ (PermanentlyBlocked(kv, ip) /\ ~(last'.op = "unblock_ip" /\ last'.ip = ip))
                => PermanentlyBlocked(kv', ip)]_vars
----------------------------------------------------------------------------
(* Claims about the limiter's administrative operations *)

PairKeys(s, identifier, endpoint) ==
    {k \in RateKeysOf(s) : k[2] = identifier /\ k[3] = endpoint}

\* C17: with the store answering, reset(identifier, endpoint) leaves no
\* minute, hour or burst key of the pair, and is_allowed for a pair without
\* keys is allowed with remaining = min(rate_per_minute, rate_per_hour) - 1
C17_Reset ==
    [][/\ (last'.op = "reset" /\ Answering)
            => PairKeys(kv', last'.identifier, last'.endpoint) = {}
       /\ (last'.op = "is_allowed" /\ Answering
             /\ PairKeys(kv, last'.identifier, last'.endpoint) = {})
            => (last'.allowed /\ last'.info.remaining = EffectiveLimit - 1)]_vars

\* C18: with the store answering, get_limit_info reports the values of the
\* pair's minute and hour counters (0 for a missing one); the call leaves
\* every key, value and TTL of the store as it was
C18_LimitInfoFrame ==
    [][last'.op = "get_limit_info" =>
          /\ kv' = kv
          /\ Answering =>
                /\ last'.info.minute_used = CounterAt(last'.identifier, last'.endpoint, "minute")
                /\ last'.info.hour_used = CounterAt(last'.identifier, last'.endpoint, "hour")]_vars
\* get_limit_info has reported a used-up minute window
C18_Witness ==
    /\ last.op = "get_limit_info" /\ Answering
    /\ last.info.minute_used = cfg.rate_per_minute
    /\ last.info.minute_used > 0
    /\ RateKeysOf(kv) # {}
----------------------------------------------------------------------------
(* Claims about the cache without an embedding model *)

\* C19: without an embedding model, a lookup of a text whose own entry is
\* stored returns that entry's response, and a lookup of a text that has no
\* entry of its own returns no match
C19_EmbeddingFallback ==
    [][(last'.op = "get_cached_response" /\ ~cfg.embedding_model /\ Answering) =>
        LET key == ExactKey(last'.query, last'.language)
        IN /\ (Has(kv, key) /\ Truthy(StoredResponse(kv, key)))
                => (/\ last'.value # <<>>
                    /\ ReturnedPayload(last'.value) = StoredResponse(kv, key))
           /\ ~Has(kv, key) => last'.value = <<>>]_vars
----------------------------------------------------------------------------
(* Claims about languages *)

\* C20: a lookup under language L returns only a response that is stored in
\* an entry of language L
C20_LanguageIsolation ==
    [][(last'.op = "get_cached_response" /\ last'.value # <<>>) =>
          \E k \in CachedEntries(kv) :
              /\ k[3] = last'.language
              /\ StoredResponse(kv, k) = ReturnedPayload(last'.value)]_vars
----------------------------------------------------------------------------
(* Claims about the cache_query wrapper *)

\* C21: a decorated call with a query consults the cache first; on a hit it
\* does not invoke the pipeline, on a miss it invokes it exactly once; and the
\* call that repeats a miss whose result was returned, with the store
\* answering, is a hit
C21_CacheAside ==
    [][(last'.op = "cache_query" /\ last'.query # "") =>
          /\ last'.consulted
          /\ last'.hit => last'.calls = 0
          /\ ~last'.hit => last'.calls = 1
          /\ ( /\ last.op = "cache_query" /\ ~last.hit /\ last.first # Raises
               /\ Truthy(last.first[1])
               /\ last.query = last'.query /\ last.language = last'.language
               /\ Answering )
             => last'.hit]_vars
----------------------------------------------------------------------------
(* Claims about the order of the limiter's checks *)

\* the key is the same before and after the step
KeySame(k) == (Has(kv, k) <=> Has(kv', k)) /\ (Has(kv, k) => kv'[k] = kv[k])

\* C22: with the store answering, a call that finds the minute counter at
\* its limit is rejected with the minute counter's rate_limit_exceeded result
\* (remaining 0, reset_at from the minute key's TTL), whatever the hour
\* counter holds, and changes neither the hour counter nor the burst window;
\* a call that passes the minute check and finds the hour counter at its
\* limit is rejected with rate_limit_exceeded and leaves the burst window
C22_CheckOrder ==
    [][(last'.op = "is_allowed" /\ Answering) =>
        LET id == last'.identifier
            ep == last'.endpoint
        IN /\ CounterAt(id, ep, "minute") >= cfg.rate_per_minute =>
                /\ ~last'.allowed
                /\ DictGet(last'.info, "reason", "none") = "rate_limit_exceeded"
                /\ last'.info.remaining = 0
                /\ last'.info.reset_at = now + Ttl(kv', RateKey(id, ep, "minute"))
                /\ KeySame(RateKey(id, ep, "hour"))
                /\ KeySame(RateKey(id, ep, "burst"))
           /\ ( /\ CounterAt(id, ep, "minute") < cfg.rate_per_minute
                /\ CounterAt(id, ep, "hour") >= cfg.rate_per_hour ) =>
                /\ ~last'.allowed
                /\ DictGet(last'.info, "reason", "none") = "rate_limit_exceeded"
                /\ KeySame(RateKey(id, ep, "burst"))]_vars
\* a call was rejected with both counters at their limits and the two keys
\* due at different times
C22_Witness ==
    /\ last.op = "is_allowed" /\ ~last.allowed /\ Answering
    /\ CounterAt(last.identifier, last.endpoint, "minute") >= cfg.rate_per_minute
    /\ CounterAt(last.identifier, last.endpoint, "hour") >= cfg.rate_per_hour
    /\ Ttl(kv, RateKey(last.identifier, last.endpoint, "minute"))
         # Ttl(kv, RateKey(last.identifier, last.endpoint, "hour"))
    /\ Ttl(kv, RateKey(last.identifier, last.endpoint, "minute")) > 0
----------------------------------------------------------------------------
(* Claims about the burst window *)

\* burst entries of the pair with a timestamp >= now - 10
WithinBurstSpan(identifier, endpoint) ==
    IF Has(kv, RateKey(identifier, endpoint, "burst"))
    THEN Len(SelectSeq(kv[RateKey(identifier, endpoint, "burst")].val,
                       LAMBDA t : t >= now - BurstSpan))
    ELSE 0

\* C23: a call that reaches the burst check (store answering, minute and hour
\* counters under their limits) passes it exactly when the entries of the
\* pair with timestamp >= now - 10, the call's own included, are at most burst
C23_BurstBoundary ==
    [][( /\ last'.op = "is_allowed" /\ Answering
         /\ CounterAt(last'.identifier, last'.endpoint, "minute") < cfg.rate_per_minute
         /\ CounterAt(last'.identifier, last'.endpoint, "hour") < cfg.rate_per_hour )
       => (last'.allowed <=>
             WithinBurstSpan(last'.identifier, last'.endpoint) + 1 <= cfg.burst)]_vars
----------------------------------------------------------------------------
(* Claims about concurrent callers *)

\* C24: with K callers running is_allowed concurrently for one pair, each
\* window counter admits at most limit + K - 1 calls within one window
C24_BoundedOverAdmission ==
    \A kind \in {"minute", "hour"} :
        inflight.admitted[kind] <= LimitOf(kind) + Cardinality(Callers) - 1
----------------------------------------------------------------------------
(* Claims about the handler *)

\* C25: dispatch invokes the downstream handler at most once per request,
\* also when the handler raises and when the annotation of its response raises
C25_HandlerAtMostOnce ==
    last.op = "dispatch" => last.handler_calls <= 1
----------------------------------------------------------------------------
(* Claims about what a rejected call leaves behind *)

\* the burst window of the pair ends with an entry of this second
BurstEndsNow(s, identifier, endpoint) ==
    /\ Has(s, RateKey(identifier, endpoint, "burst"))
    /\ s[RateKey(identifier, endpoint, "burst")].val # <<>>
    /\ s[RateKey(identifier, endpoint, "burst")].val[Len(s[RateKey(identifier, endpoint, "burst")].val)] = now
BurstLen(s, identifier, endpoint) == Zcard(s, RateKey(identifier, endpoint, "burst"))

\* C26: with the store answering and no key expiring during the call, a call
\* rejected by the minute limit leaves the minute counter, the hour counter
\* and the burst window as they were; a call rejected by the hour limit has
\* raised the minute counter by one; a call rejected by the burst check has
\* raised the minute and the hour counter by one and its timestamp is in the
\* burst window
C26_NoRollback ==
    [][(last'.op = "is_allowed" /\ Answering /\ ~last'.lapsed /\ ~last'.allowed) =>
        LET id == last'.identifier
            ep == last'.endpoint
            m == RateKey(id, ep, "minute")
            h == RateKey(id, ep, "hour")
        IN IF CounterAt(id, ep, "minute") >= cfg.rate_per_minute
           THEN KeySame(m) /\ KeySame(h) /\ KeySame(RateKey(id, ep, "burst"))
           ELSE IF CounterAt(id, ep, "hour") >= cfg.rate_per_hour
           THEN /\ Has(kv', m) /\ kv'[m].val = CounterAt(id, ep, "minute") + 1
                /\ KeySame(h) /\ KeySame(RateKey(id, ep, "burst"))
           ELSE /\ DictGet(last'.info, "reason", "none") = "burst_limit_exceeded"
                /\ Has(kv', m) /\ kv'[m].val = CounterAt(id, ep, "minute") + 1
                /\ Has(kv', h) /\ kv'[h].val = CounterAt(id, ep, "hour") + 1
                /\ BurstEndsNow(kv', id, ep)
                /\ BurstLen(kv', id, ep) > cfg.burst]_vars
\* a call was rejected by the burst check with both counters raised past 1
C26_Witness ==
    /\ last.op = "is_allowed" /\ ~last.allowed /\ ~last.lapsed /\ Answering
    /\ DictGet(last.info, "reason", "none") = "burst_limit_exceeded"
    /\ CounterAt(last.identifier, last.endpoint, "minute") >= 2
    /\ CounterAt(last.identifier, last.endpoint, "hour") >= 2
    /\ BurstEndsNow(kv, last.identifier, last.endpoint)
----------------------------------------------------------------------------
(* Claims about clear_cache *)

CacheFamilies == {"query_cache", "metadata"}
\* C27: clear_cache changes no key outside the query_cache: and metadata:
\* families, whatever the pattern: block records, the whitelist, the rate
\* counters, the burst windows and the hit and miss counters stay as they were
C27_ClearFrame ==
    [][last'.op = "clear_cache" =>
        \A k \in DOMAIN kv : k[1] \notin CacheFamilies => KeySame(k)]_vars
----------------------------------------------------------------------------
(* Claims about the threshold override *)

AllReturned == \A c \in Callers : inflight.pc[c] = "idle"
\* C28: once every decorated call has returned, the similarity_threshold of
\* the shared cache is the one it had before the calls, for every interleaving
\* of calls with different overrides and whether or not the function raised
C28_ThresholdRestored ==
    AllReturned => cfg.similarity_threshold = DefaultThreshold
----------------------------------------------------------------------------
(* Claims about reset and the other pairs *)

\* C29: reset(identifier, endpoint) leaves the minute counter, the hour
\* counter and the burst window of every other (identifier, endpoint) pair as
\* they were, also when the path of one endpoint extends that of another
C29_ResetFrame ==
    [][last'.op = "reset" =>
        \A p \in Pairs : p # <<last'.identifier, last'.endpoint>> =>
            \A kind \in {"minute", "hour", "burst"} : KeySame(RateKey(p[1], p[2], kind))]_vars
----------------------------------------------------------------------------
(* Claims about the retry hint *)

\* C30: the Retry-After of a 429 answer is at least the number of seconds
\* until the window that caused the rejection resets, reset_at - now
C30_RetryHint ==
    (last.op = "dispatch" /\ last.status = 429) =>
        last.headers["Retry-After"] >= last.consulted[1].info.reset_at - now
====
